---- MODULE Spec2Model ----
(***************************************************************************)
(* A model of get_submissions.py: download_submissions (validation, the    *)
(* manifest, the pagination loop, the per-attachment download and the      *)
(* optional conversion) and convert_image.                                 *)
(*                                                                         *)
(* Python strings are sequences of tokens (a token is a run of characters  *)
(* that no operation of the program cuts: "https://", "a", ".", "png",     *)
(* "<", ";", "rel=\"next\"").  An optional string is a record              *)
(* [t, s]: t = "none" is None, t = "str" is the string s.  An argument     *)
(* that should be a number is a record [t, n] with t its Python type.      *)
(* The pass-through fields of a submission (student name, date, comments,  *)
(* late, grade, excused) are left out of the rows; what is kept of them is *)
(* whether reading them raises (lines 141-147), which ends the run.        *)
(***************************************************************************)
EXTENDS Integers, Sequences, FiniteSets, TLC

VARIABLES
    args,            \* the arguments of download_submissions
    pc,              \* position in download_submissions
    assignment_url,  \* the page state (lines 99, 199, 204)
    response,        \* the listing response in hand (line 122)
    submission,      \* the submission in hand (line 139)
    attachment,      \* the attachment in hand (line 154)
    manifest,        \* content of submissions.csv on disk
    csv_opens,       \* how often the manifest was opened (line 110)
    csv_closes,      \* how often the manifest was closed (line 214)
    disk,            \* files of the output directory: path -> content
    request,         \* the last HTTP request issued
    nlist,           \* listing requests issued so far (line 122)
    ndown,           \* download requests issued so far (line 167)
    clock,           \* time spent in time.sleep so far (line 130)
    natts,           \* attachments delivered by the server so far
    downloaded,      \* attachments whose file was written completely
    errors,          \* of those, the ones whose processing then raised
    cv,              \* a direct call of convert_image and its result
    url_parts,       \* the call of extract_url_parts and its result
    npages,          \* listing responses that were pages (line 136)
    nnext            \* of those, the ones with a next URL (lines 198-205)

vars == <<args, pc, assignment_url, response, submission, attachment,
          manifest, csv_opens, csv_closes, disk, request, nlist, ndown,
          clock, natts, downloaded, errors, cv, url_parts, npages, nnext>>

----------------------------------------------------------------------------
\* Bounds of the model.

\* The size of a run: a listing request counts one, an attachment the
\* server delivers counts one, and one more when it is downloaded.
MaxWork == 6

----------------------------------------------------------------------------
\* Python values.

None == [t |-> "none", s |-> <<>>]
Str(s) == [t |-> "str", s |-> s]

\* bool(x) of an optional string: None and "" are falsy.
Truthy(v) == v.t = "str" /\ v.s # <<>>

Num(t, n) == [t |-> t, n |-> n]

\* bool(x) of None, an int, a float or a string of digits.
TruthyNum(v) ==
    CASE v.t = "none" -> FALSE
      [] v.t = "str"  -> TRUE
      [] OTHER        -> v.n # 0

\* isinstance(x, int)
IsInt(v) == v.t = "int"

\* s.startswith(prefix)
StartsWith(s, prefix) ==
    /\ Len(s) >= Len(prefix)
    /\ SubSeq(s, 1, Len(prefix)) = prefix

\* str.lower() on the tokens the model uses
Lower(tok) ==
    CASE tok = "HEIC" -> "heic"
      [] tok = "JPG"  -> "jpg"
      [] tok = "PNG"  -> "png"
      [] OTHER        -> tok

\* s.split(sep): the pieces of s between the occurrences of the token sep.
RECURSIVE Split(_, _)
Split(s, sep) ==
    IF \A i \in 1..Len(s) : s[i] # sep
    THEN <<s>>
    ELSE LET k == CHOOSE i \in 1..Len(s) :
                    s[i] = sep /\ \A j \in 1..(i-1) : s[j] # sep
         IN  <<SubSeq(s, 1, k-1)>> \o Split(SubSeq(s, k+1, Len(s)), sep)

\* s.strip(chars): drop the leading and trailing tokens that are in chars.
RECURSIVE LStrip(_, _)
LStrip(s, chars) ==
    IF s # <<>> /\ s[1] \in chars THEN LStrip(Tail(s), chars) ELSE s

RECURSIVE RStrip(_, _)
RStrip(s, chars) ==
    IF s # <<>> /\ s[Len(s)] \in chars
    THEN RStrip(SubSeq(s, 1, Len(s)-1), chars) ELSE s

Strip(s, chars) == RStrip(LStrip(s, chars), chars)

\* needle in s, for a needle that is one token
Contains(s, needle) == \E i \in 1..Len(s) : s[i] = needle

----------------------------------------------------------------------------
\* The arguments of download_submissions.

ApiKeys == {None, Str(<<>>), Str(<<"k">>)}
BaseUrls == {None, Str(<<>>), Str(<<"http://", "h", "/">>),
             Str(<<"https://", "h", "/">>)}
Ids == {Num("none", 0), Num("int", 0), Num("int", 5), Num("str", 5),
        Num("float", 5)}
\* main() passes None, "jpg" or "png" (line 223)
ConvertTos == {None, Str(<<"jpg">>), Str(<<"png">>)}

Args == [api_key : ApiKeys, base_url : BaseUrls, course_id : Ids,
         assignment_id : Ids, convert_to : ConvertTos]

\* Variant: the check of line 90 left out.
ValidationFails_AnyScheme(a) ==
    \/ ~Truthy(a.api_key) \/ ~Truthy(a.base_url)
    \/ ~TruthyNum(a.course_id) \/ ~TruthyNum(a.assignment_id)
    \/ ~IsInt(a.course_id)
    \/ ~IsInt(a.assignment_id)

\* Lines 88-95: the input validation. TRUE when a ValueError is raised.
\* (startswith is only reached with a truthy base_url.)
ValidationFails(a) ==
    \/ ~Truthy(a.api_key) \/ ~Truthy(a.base_url)
    \/ ~TruthyNum(a.course_id) \/ ~TruthyNum(a.assignment_id)
    \/ ~StartsWith(a.base_url.s, <<"https://">>)
    \/ ~IsInt(a.course_id)
    \/ ~IsInt(a.assignment_id)

\* Line 99: the submissions endpoint of the assignment.
Endpoint(a) ==
    Str(a.base_url.s \o <<"api/v1/courses/", ToString(a.course_id.n),
                          "/assignments/", ToString(a.assignment_id.n),
                          "/submissions">>)

----------------------------------------------------------------------------
\* The server: listing responses.

LT == "<"
GT == ">"
SP == " "
COMMA == ","
SEMI == ";"
RelNext == "rel=\"next\""
RelPrev == "rel=\"prev\""
RelCurrent == "rel=\"current\""
Title == "title=\"t\""

\* The URL the server names as the page after the one it sends, when k
\* pages went before.
PageUrl(k) == "page=" \o ToString(k + 2)

\* The Link headers the server sends, for a next page u.
\*   <u>; rel="next"
LinkNext(u) == <<LT, u, GT, SEMI, SP, RelNext>>
\*   <p0>; rel="current",<u>; rel="next",<p0>; rel="prev"
LinkCanvas(u) == <<LT, "p0", GT, SEMI, SP, RelCurrent, COMMA>>
                 \o LinkNext(u)
                 \o <<COMMA, LT, "p0", GT, SEMI, SP, RelPrev>>
\*   <p0>; rel="current",<p0>; rel="prev"         (the last page)
LinkLast == <<LT, "p0", GT, SEMI, SP, RelCurrent, COMMA,
              LT, "p0", GT, SEMI, SP, RelPrev>>
\*   <u>; rel="next"; title="t"                   (a second parameter)
LinkTitled(u) == LinkNext(u) \o <<SEMI, SP, Title>>

LinkHeaders(u) ==
    {None, Str(LinkLast), Str(LinkNext(u)), Str(LinkCanvas(u)),
     Str(LinkTitled(u))}

\* The values of a Retry-After header: delay-seconds, or an HTTP-date.
HttpDate == "Fri, 31 Dec 1999 23:59:59 GMT"
Delays == {0, 1}
RetryAfterValues == {ToString(n) : n \in Delays} \cup {HttpDate}

\* int(s): the number s spells, or -1 when s spells none (ValueError).
ParseInt(s) ==
    IF \E n \in Delays : ToString(n) = s
    THEN CHOOSE n \in Delays : ToString(n) = s
    ELSE -1

\* No response in hand: requests.get raised, or none was asked for yet.
NoResponse == [transport_error |-> TRUE, ok |-> FALSE, retry_after |-> None,
               link |-> None, body |-> "none"]

\* Lines 136, 139: the body of a response as the code meets it.  "items":
\* JSON that line 139 can iterate (an array, or an object, whose keys it
\* iterates); "null": JSON that it cannot iterate (null, a number);
\* "not_json": response.json() raises.  "none": a body that is not read.
\* (The Link header of a response is read after its body, line 198: the
\* bodies that raise come without one.)
Bodies == {"items", "null", "not_json"}

\* What requests.get gives for a listing request: it raises (transport),
\* or returns a response with a status, headers and a body.  The body is
\* drawn element by element as the loops of lines 139 and 154 reach it:
\* the code reads it once, in order.
ListingResponses(u) ==
    {NoResponse}
    \cup [transport_error : {FALSE}, ok : BOOLEAN,
          retry_after : {Str(<<v>>) : v \in RetryAfterValues},
          link : {None}, body : {"none"}]
    \cup [transport_error : {FALSE}, ok : {FALSE},
          retry_after : {None}, link : {None}, body : {"none"}]
    \cup [transport_error : {FALSE}, ok : {TRUE},
          retry_after : {None}, link : LinkHeaders(u), body : {"items"}]
    \cup [transport_error : {FALSE}, ok : {TRUE},
          retry_after : {None}, link : {None}, body : Bodies \ {"items"}]

\* Lines 198-205: the URL of the next page, None when there is none.
RECURSIVE FirstNext(_)
FirstNext(entries) ==
    IF entries = <<>> THEN None
    ELSE LET parts == Split(Head(entries), SEMI)
         IN  IF Len(parts) = 2 /\ Contains(parts[2], RelNext)
             THEN Str(Strip(parts[1], {LT, GT, SP}))
             ELSE FirstNext(Tail(entries))

NextPage(links) ==
    IF Truthy(links) THEN FirstNext(Split(links.s, COMMA)) ELSE None

----------------------------------------------------------------------------
\* The server: submissions and attachments.

\* The "user_id" of a submission: a number, JSON null, or ("none") no such
\* key.
UserIds == {Num("int", 7), Num("null", 0), Num("none", 0)}

FileNames == {Str(<<"a", ".", "png">>), Str(<<"a", ".", "HEIC">>)}

Attachments == [filename : FileNames \cup {None},
                url : {None, Str(<<"d1">>)}]

\* Line 143: submission.get("user_id", "Unknown"), as f-strings print it
CanvasId(sub) ==
    CASE sub.user_id.t = "none" -> "Unknown"
      [] sub.user_id.t = "null" -> "None"
      [] OTHER                  -> ToString(sub.user_id.n)

\* Line 185: canvas_id as csv.writer writes it (None gives an empty cell)
CanvasIdCell(sub) ==
    IF sub.user_id.t = "null" THEN "" ELSE CanvasId(sub)

\* Lines 141-154: what an element of the body can be.  "ok": a submission
\* that lines 141-154 read through; the others raise there, outside the
\* inner try.  "not_a_dict": it has no .get (line 141; a key of a JSON
\* object, a number); "user_null": "user" is null (line 142); "bad_date":
\* "submitted_at" is not of the form %Y-%m-%dT%H:%M:%SZ (line 145);
\* "comment_null": an element of "submission_comments" is null (line 147);
\* "attachments_null": "attachments" is null (line 154, where the for
\* statement asks for an iterator before it takes any attachment).
Raising == {"not_a_dict", "user_null", "bad_date", "comment_null",
            "attachments_null"}

Submissions ==
    [user_id : UserIds, shape : {"ok"}]
    \cup [user_id : {Num("none", 0)}, shape : Raising]

NoSubmission == [user_id |-> Num("none", -1), shape |-> "ok"]
NoAttachment == [filename |-> None, url |-> None]

----------------------------------------------------------------------------
\* The file system.

OutDir == "out/"

\* os.path.join(output_path, name)
Join(name) == <<OutDir>> \o name

\* os.path.basename(path)
Basename(path) ==
    LET dirs == {i \in 1..Len(path) : path[i] = OutDir}
    IN  IF dirs = {} THEN path
        ELSE SubSeq(path, (CHOOSE i \in dirs : \A j \in dirs : j <= i) + 1,
                    Len(path))

\* os.path.splitext(path): (base, ext), ext from the last dot on
SplitExt(path) ==
    LET dots == {i \in 2..Len(path) : path[i] = "."}
    IN  IF dots = {} THEN [base |-> path, ext |-> <<>>]
        ELSE LET k == CHOOSE i \in dots : \A j \in dots : j <= i
             IN  [base |-> SubSeq(path, 1, k-1),
                  ext |-> SubSeq(path, k, Len(path))]

LowerAll(s) == [i \in 1..Len(s) |-> Lower(s[i])]

\* disk with the file at path written with content
WriteFile(d, path, content) ==
    [p \in DOMAIN d \cup {path} |-> IF p = path THEN content ELSE d[p]]

\* disk with the file at path removed
RemoveFile(d, path) == [p \in DOMAIN d \ {path} |-> d[p]]

\* What can go wrong in one call of convert_image: nothing, or one of
\*   open    Image.open raises OSError (not an image, unreadable)
\*   heif    pillow_heif is not installed (ImportError)
\*   load    convert/save raises OSError before the destination is opened
\*   write   save raises OSError after the destination was opened for writing
\*   remove  os.remove raises OSError
\*   other   Image.open raises an exception that is no OSError
\*           (Image.DecompressionBombError)
ConvertFaults == {"none", "open", "heif", "load", "write", "remove", "other"}

\* Lines 21-48: convert_image(image_path, output_format) on disk d under
\* fault f.  ret is the returned path (None on failure), raised tells that
\* an exception left the function, disk is the file system afterwards.
convert_image(d, image_path, output_format, f) ==
    LET parts    == SplitExt(image_path)
        fmt      == Lower(output_format[1])
        new_path == parts.base \o <<".", fmt>>
        failure(dd) == [ret |-> None, raised |-> FALSE, disk |-> dd]
    IN  IF image_path \notin DOMAIN d \/ f = "open" THEN failure(d)
        ELSE IF f = "other" THEN [ret |-> None, raised |-> TRUE, disk |-> d]
        ELSE IF LowerAll(parts.ext) = <<".", "heic">> /\ f = "heif"
             THEN failure(d)
        ELSE IF fmt \in {"jpg", "png"}
             THEN IF f = "load" THEN failure(d)
                  ELSE IF f = "write"
                       THEN failure(WriteFile(d, new_path, "partial"))
                  ELSE LET saved == WriteFile(d, new_path,
                                      IF fmt = "jpg" THEN "JPEG RGB" ELSE "PNG")
                       IN  IF f = "remove" THEN failure(saved)
                           ELSE [ret |-> Str(new_path), raised |-> FALSE,
                                 disk |-> RemoveFile(saved, image_path)]
        ELSE failure(d)

----------------------------------------------------------------------------
\* download_submissions.

\* Lines 112-115: the header row (of the columns the model keeps).
Header == [canvas_id |-> "Canvas ID",
           original_filename |-> <<"Original Filename">>,
           renamed_filename |-> <<"Renamed Filename">>]

\* Lines 184-188: the row of an attachment.
Row(canvas_id, original_filename, renamed_filename) ==
    [canvas_id |-> canvas_id, original_filename |-> original_filename,
     renamed_filename |-> renamed_filename]

\* A manifest a previous run left in the output directory.
StaleManifest == <<Header, Row("9", <<"old", ".", "png">>,
                               <<"9", "_", "old", ".", "png">>)>>

\* Lines 98-103, 122: the listing request for a page URL.
ListingRequest(url) == [kind |-> "list", url |-> url, params |-> TRUE]

\* Line 167: the download request for an attachment.
DownloadRequest(url) == [kind |-> "download", url |-> url, params |-> FALSE]

NoRequest == [kind |-> "none", url |-> <<>>, params |-> FALSE]

NoCall == [state |-> "none", image_path |-> <<>>, output_format |-> <<>>,
           fault |-> "none", before |-> <<>>, ret |-> None,
           raised |-> FALSE]

\* extract_url_parts is not being called.
NoParse == [state |-> "none", course_url |-> <<>>, base_url |-> None,
            course_id |-> Num("none", 0)]

Init ==
    /\ args \in Args
    /\ pc = "start"
    /\ assignment_url = None
    /\ response = NoResponse
    /\ submission = NoSubmission
    /\ attachment = NoAttachment
    /\ manifest \in {<<>>, StaleManifest}
    /\ csv_opens = 0
    /\ csv_closes = 0
    /\ disk = <<>>
    /\ request = NoRequest
    /\ nlist = 0
    /\ ndown = 0
    /\ clock = 0
    /\ natts = 0
    /\ downloaded = 0
    /\ errors = 0
    /\ cv = NoCall
    /\ url_parts = NoParse
    /\ npages = 0
    /\ nnext = 0

\* Lines 88-99: validate the arguments; a ValueError leaves the function.
Validate ==
    /\ pc = "start"
    /\ IF ValidationFails(args)
       THEN pc' = "raised" /\ UNCHANGED assignment_url
       ELSE pc' = "open" /\ assignment_url' = Endpoint(args)
    /\ UNCHANGED <<args, response, submission, attachment, manifest,
                   csv_opens, csv_closes, disk, request, nlist, ndown,
                   clock, natts, downloaded, errors, cv,
                   url_parts, npages,
                   nnext>>

\* Variant: the file opened with mode 'a'.
OpenedManifest_Append(old) == old \o <<Header>>

\* Lines 110-115: the file opened with mode 'w' (whatever it held is
\* dropped) and the header row written.
OpenedManifest(old) == <<Header>>

\* Lines 106-115: open the manifest for writing and write the header row.
OpenManifest ==
    /\ pc = "open"
    /\ manifest' = OpenedManifest(manifest)
    /\ csv_opens' = csv_opens + 1
    /\ pc' = "loop"
    /\ UNCHANGED <<args, assignment_url, response, submission, attachment,
                   csv_closes, disk, request, nlist, ndown, clock, natts,
                   downloaded, errors, cv,
                   url_parts, npages,
                   nnext>>

\* The size of the run so far.
Work == nlist + natts + ndown

\* What an attachment adds to the size of the run: one, and one more for
\* the download request that lines 159-167 issue for it.
Cost(att) == IF Truthy(att.filename) /\ Truthy(att.url) THEN 2 ELSE 1

\* Line 119 holds and line 122 is reached.
CanFetch ==
    /\ pc = "loop"
    /\ Truthy(assignment_url)
    /\ Work + 1 <= MaxWork

\* Line 122: requests.get(assignment_url, headers=headers, params=params)
IssueListing ==
    /\ request' = ListingRequest(assignment_url.s)
    /\ nlist' = nlist + 1

\* Variant: continue in place of break.
PcAfterListingError_Continue == "loop"

\* Lines 208-213: both handlers of the outer try leave the loop (break).
PcAfterListingError == "close"

\* Lines 122, 208-210: requests.get raises; the loop is left.
FetchTransportError ==
    /\ CanFetch
    /\ IssueListing
    /\ response' = NoResponse
    /\ pc' = PcAfterListingError
    /\ UNCHANGED <<args, assignment_url, submission, attachment, manifest,
                   csv_opens, csv_closes, disk, ndown, clock, natts,
                   downloaded, errors, cv,
                   url_parts, npages,
                   nnext>>

\* Variant: no continue, the rate-limited response is paginated.
UrlAfterRateLimit_Advance(url, r) == NextPage(r.link)

\* Line 131: continue; the page state is what it was.
UrlAfterRateLimit(url, r) == url

\* Lines 126-131: the response carries Retry-After; sleep and go round
\* again.  int() of a value that is no number raises ValueError, which
\* line 211 catches: the loop is left.
FetchRateLimited ==
    /\ CanFetch
    /\ IssueListing
    /\ \E r \in ListingResponses(PageUrl(npages)) :
        /\ ~r.transport_error /\ r.retry_after # None
        /\ response' = r
        /\ LET wait_time == ParseInt(r.retry_after.s[1])
           IN  IF wait_time < 0
               THEN /\ pc' = PcAfterListingError
                    /\ UNCHANGED <<clock, assignment_url>>
               ELSE /\ pc' = "loop"
                    /\ clock' = clock + wait_time
                    /\ assignment_url' = UrlAfterRateLimit(assignment_url, r)
    /\ UNCHANGED <<args, submission, attachment, manifest, csv_opens,
                   csv_closes, disk, ndown, natts, downloaded, errors, cv,
                   url_parts, npages,
                   nnext>>

\* Lines 133, 208-210: raise_for_status raises; the loop is left.
FetchBadStatus ==
    /\ CanFetch
    /\ IssueListing
    /\ \E r \in ListingResponses(PageUrl(npages)) :
        /\ ~r.transport_error /\ r.retry_after = None /\ ~r.ok
        /\ response' = r
    /\ pc' = PcAfterListingError
    /\ UNCHANGED <<args, assignment_url, submission, attachment, manifest,
                   csv_opens, csv_closes, disk, ndown, clock, natts,
                   downloaded, errors, cv,
                   url_parts, npages,
                   nnext>>

\* Lines 136, 211-213: the body is no JSON; response.json() raises
\* (JSONDecodeError, a ValueError) and the loop is left.
FetchNotJson ==
    /\ CanFetch
    /\ IssueListing
    /\ \E r \in ListingResponses(PageUrl(npages)) :
        /\ ~r.transport_error /\ r.retry_after = None /\ r.ok
        /\ r.body = "not_json"
        /\ response' = r
    /\ pc' = PcAfterListingError
    /\ UNCHANGED <<args, assignment_url, submission, attachment, manifest,
                   csv_opens, csv_closes, disk, ndown, clock, natts,
                   downloaded, errors, cv, url_parts, npages, nnext>>

\* Lines 133-136: a page arrived (response.json() returned); the loop of
\* line 139 is next.
FetchPage ==
    /\ CanFetch
    /\ IssueListing
    /\ \E r \in ListingResponses(PageUrl(npages)) :
        /\ ~r.transport_error /\ r.retry_after = None /\ r.ok
        /\ r.body # "not_json"
        /\ response' = r
        /\ nnext' = nnext + (IF Truthy(NextPage(r.link)) THEN 1 ELSE 0)
    /\ npages' = npages + 1
    /\ pc' = "page"
    /\ submission' = NoSubmission
    /\ UNCHANGED <<args, assignment_url, attachment, manifest, csv_opens,
                   csv_closes, disk, ndown, clock, natts, downloaded,
                   errors, cv, url_parts>>

\* Lines 139-154: the loop takes the next submission of the page (the
\* attachments of the one before are through), reads its fields and asks
\* for its attachments.  A body that cannot be iterated raises at line 139,
\* a submission of a raising shape at lines 141-154; lines 211-213 catch it
\* and leave the loop, and the submission is not looked at again.
NextSubmission ==
    /\ pc = "page"
    /\ IF response.body = "items"
       THEN \E sub \in Submissions :
               IF sub.shape \in Raising
               THEN /\ pc' = PcAfterListingError
                    /\ submission' = NoSubmission
               ELSE /\ submission' = sub
                    /\ UNCHANGED pc
       ELSE /\ pc' = PcAfterListingError
            /\ UNCHANGED submission
    /\ UNCHANGED <<args, assignment_url, response, attachment, manifest,
                   csv_opens, csv_closes, disk, request, nlist, ndown,
                   clock, natts, downloaded, errors, cv,
                   url_parts, npages,
                   nnext>>

\* Line 154: the loop takes the next attachment of the submission.
NextAttachment ==
    /\ pc = "page"
    /\ submission # NoSubmission
    /\ attachment' \in Attachments
    /\ Work + Cost(attachment') <= MaxWork
    /\ natts' = natts + 1
    /\ pc' = "attachment"
    /\ UNCHANGED <<args, assignment_url, response, submission, manifest,
                   csv_opens, csv_closes, disk, request, nlist, ndown,
                   clock, downloaded, errors, cv,
                   url_parts, npages,
                   nnext>>

\* What can go wrong in lines 167-172: nothing; the request fails (get or
\* raise_for_status raises); or the transfer breaks after the file was
\* opened for writing.
DownloadOutcomes == {"ok", "request_error", "write_error"}

\* Line 163: the derived name of an attachment.
RenamedFilename(sub, att) == <<CanvasId(sub), "_">> \o att.filename.s

\* Variant: only the filename is looked at.
MissingMetadata_NameOnly(att) == ~Truthy(att.filename)

\* Lines 159-161: the attachment lacks a filename or a URL.
MissingMetadata(att) == ~Truthy(att.filename) \/ ~Truthy(att.url)

\* Variant: the row written inside the branch of line 177.
RowsFor_ConvertedOnly(c, row) == IF Truthy(c.ret) THEN <<row>> ELSE <<>>

\* Lines 183-188: one row, whatever the conversion c returned.
RowsFor(c, row) == <<row>>

\* Variant: no inner try, the error reaches the handlers of the outer one.
PcAfterAttachmentError_Abort == "close"

\* Lines 191-194: both handlers of the inner try fall through to the next
\* round of the loop of line 154.
PcAfterAttachmentError == "page"

\* Lines 155-194: the body of the loop for the attachment in hand.
ProcessAttachment ==
    /\ pc = "attachment"
    /\ LET canvas_id         == CanvasIdCell(submission)
           original_filename == attachment.filename
           download_url      == attachment.url
           renamed_filename  == RenamedFilename(submission, attachment)
           file_path         == Join(renamed_filename)
       IN  IF MissingMetadata(attachment)
           THEN /\ pc' = "page"
                /\ UNCHANGED <<manifest, disk, request, ndown, downloaded,
                               errors>>
           ELSE /\ request' = DownloadRequest(download_url.s)
                /\ ndown' = ndown + 1
                /\ \E dl \in DownloadOutcomes, f \in ConvertFaults :
                    CASE dl = "request_error" ->
                           /\ pc' = PcAfterAttachmentError
                           /\ UNCHANGED <<manifest, disk, downloaded, errors>>
                      [] dl = "write_error" ->
                           /\ disk' = WriteFile(disk, file_path, "partial")
                           /\ pc' = PcAfterAttachmentError
                           /\ UNCHANGED <<manifest, downloaded, errors>>
                      [] OTHER ->
                           LET written == WriteFile(disk, file_path, "data")
                               c == IF Truthy(args.convert_to)
                                    THEN convert_image(written, file_path,
                                                       args.convert_to.s, f)
                                    ELSE [ret |-> None, raised |-> FALSE,
                                          disk |-> written]
                               name == IF Truthy(c.ret)
                                       THEN Basename(c.ret.s)
                                       ELSE renamed_filename
                               row == Row(canvas_id, original_filename.s,
                                          name)
                           IN  /\ downloaded' = downloaded + 1
                               /\ disk' = c.disk
                               /\ IF c.raised
                                  THEN /\ errors' = errors + 1
                                       /\ pc' = PcAfterAttachmentError
                                       /\ UNCHANGED manifest
                                  ELSE /\ manifest' =
                                            manifest \o RowsFor(c, row)
                                       /\ pc' = "page"
                                       /\ UNCHANGED errors
    /\ attachment' = NoAttachment
    /\ UNCHANGED <<args, assignment_url, response, submission, csv_opens,
                   csv_closes, nlist, clock, natts, cv,
                   url_parts, npages,
                   nnext>>

\* Variant: line 199 left out, the page state stays when no next is found.
UrlAfterPage_Keep(url, links) ==
    IF Truthy(NextPage(links)) THEN NextPage(links) ELSE url

\* Lines 199-205: the page state after a page: the next URL, or None.
UrlAfterPage(url, links) == NextPage(links)

\* Lines 139, 198-205: the page has no further submission; the next page
\* URL is taken from the Link header of the response.
Paginate ==
    /\ pc = "page"
    /\ response.body = "items"
    /\ assignment_url' = UrlAfterPage(assignment_url, response.link)
    /\ response' = NoResponse
    /\ submission' = NoSubmission
    /\ pc' = "loop"
    /\ UNCHANGED <<args, attachment, manifest, csv_opens, csv_closes, disk,
                   request, nlist, ndown, clock, natts, downloaded, errors,
                   cv,
                   url_parts, npages,
                   nnext>>

\* Variant: the manifest closed in the handlers of lines 208-213 only.
Close_OnBreakOnly ==
    /\ pc = "close"
    /\ csv_closes' = csv_closes + 1
    /\ pc' = "done"
    /\ UNCHANGED <<args, assignment_url, response, submission, attachment,
                   manifest, csv_opens, disk, request, nlist, ndown, clock,
                   natts, downloaded, errors, cv, url_parts, npages, nnext>>

\* Lines 119, 214: the loop is over (no page URL, or a break); the manifest
\* is closed.
Close ==
    /\ \/ pc = "close"
       \/ pc = "loop" /\ ~Truthy(assignment_url)
    /\ csv_closes' = csv_closes + 1
    /\ pc' = "done"
    /\ UNCHANGED <<args, assignment_url, response, submission, attachment,
                   manifest, csv_opens, disk, request, nlist, ndown, clock,
                   natts, downloaded, errors, cv,
                   url_parts, npages,
                   nnext>>

Next ==
    \/ Validate
    \/ OpenManifest
    \/ FetchTransportError
    \/ FetchRateLimited
    \/ FetchBadStatus
    \/ FetchNotJson
    \/ FetchPage
    \/ NextSubmission
    \/ NextAttachment
    \/ ProcessAttachment
    \/ Paginate
    \/ Close

Spec == Init /\ [][Next]_vars

----------------------------------------------------------------------------
\* download_submissions against a server that sends finitely many
\* rate-limited responses and whose chain of next links is finite.
\*
\* MaxWork is what the server has to spend on responses that make the loop
\* go round once more.  When it is spent and the fetcher asks again, the
\* server answers with a last page: no Retry-After, no next link.

\* Lines 122-139: the last page arrives.
FetchLastPage ==
    /\ pc = "loop"
    /\ Truthy(assignment_url)
    /\ Work + 1 > MaxWork
    /\ IssueListing
    /\ \E r \in ListingResponses(PageUrl(npages)) :
        /\ ~r.transport_error /\ r.retry_after = None /\ r.ok
        /\ ~Truthy(NextPage(r.link))
        /\ r.body = "items"
        /\ response' = r
    /\ npages' = npages + 1
    /\ pc' = "page"
    /\ submission' = NoSubmission
    /\ UNCHANGED <<args, assignment_url, attachment, manifest, csv_opens,
                   csv_closes, disk, ndown, clock, natts, downloaded,
                   errors, cv, url_parts, nnext>>

NextLive == Next \/ FetchLastPage

\* A listing request is issued and answered (line 122).
Fetch ==
    \/ FetchTransportError
    \/ FetchRateLimited
    \/ FetchBadStatus
    \/ FetchNotJson
    \/ FetchPage
    \/ FetchLastPage

\* The steps that leave a page and an attachment, as the position shows
\* them.  A page is left by Paginate (to "loop") or by an exception of lines
\* 139-154 (NextSubmission, to "close"), and wherever pc is "page" one of
\* them is enabled: Paginate where the body is iterable, NextSubmission
\* where it is not.  A step that takes pc from "attachment" to "page" is a
\* step of ProcessAttachment, which is enabled wherever pc is "attachment".
LeavePage == pc = "page" /\ pc' \in {"loop", "close"}

LeaveAttachment == pc = "attachment" /\ pc' = "page"

\* The program is sequential and every call it makes returns, so at every
\* position short of the end it moves on: at the head of the loop (line
\* 119) a listing request is issued or the loop is left and the manifest
\* closed; an attachment in hand is dealt with; and, the body of a response
\* being a finite list, the loop of line 139 comes to its end.
Fairness ==
    /\ WF_vars(Fetch)
    /\ WF_vars(Close)
    /\ WF_pc(LeavePage)
    /\ WF_pc(LeaveAttachment)

\* The runs without --convert: what a conversion does to the files has no
\* bearing on the loops (ProcessAttachment goes back to the page whatever
\* happens to the attachment).
InitLive == Init /\ args.convert_to = None

SpecLive == InitLive /\ [][NextLive]_vars /\ Fairness

----------------------------------------------------------------------------
\* convert_image called on its own.

ConvertPaths == {Join(<<"7", "_", "a", ".", e>>) : e \in {"png", "HEIC", "jpg"}}

\* The output directory before the call: each file is missing or holds a
\* download.
ConvertDisks ==
    UNION {[S -> {"data"}] : S \in SUBSET ConvertPaths}

ConvertFormats == {<<"jpg">>, <<"JPG">>, <<"png">>, <<"gif">>}

InitConvert ==
    /\ args = [api_key |-> None, base_url |-> None,
               course_id |-> Num("none", 0), assignment_id |-> Num("none", 0),
               convert_to |-> None]
    /\ pc = "convert"
    /\ assignment_url = None
    /\ response = NoResponse
    /\ submission = NoSubmission
    /\ attachment = NoAttachment
    /\ manifest = <<>>
    /\ csv_opens = 0
    /\ csv_closes = 0
    /\ disk \in ConvertDisks
    /\ request = NoRequest
    /\ nlist = 0
    /\ ndown = 0
    /\ clock = 0
    /\ natts = 0
    /\ downloaded = 0
    /\ errors = 0
    /\ cv \in [state : {"ready"}, image_path : ConvertPaths,
               output_format : ConvertFormats, fault : ConvertFaults,
               before : {<<>>}, ret : {None}, raised : {FALSE}]
    /\ url_parts = NoParse
    /\ npages = 0
    /\ nnext = 0

\* convert_image(cv.image_path, cv.output_format) runs.
CallConvert ==
    /\ pc = "convert"
    /\ cv.state = "ready"
    /\ LET c == convert_image(disk, cv.image_path, cv.output_format, cv.fault)
       IN  /\ disk' = c.disk
           /\ cv' = [cv EXCEPT !.state = "returned", !.before = disk,
                               !.ret = c.ret, !.raised = c.raised]
    /\ UNCHANGED <<args, pc, assignment_url, response, submission, attachment,
                   manifest, csv_opens, csv_closes, request, nlist, ndown,
                   clock, natts, downloaded, errors, url_parts, npages,
                   nnext>>

NextConvert == CallConvert

SpecConvert == InitConvert /\ [][NextConvert]_vars

----------------------------------------------------------------------------
\* extract_url_parts, as main() calls it.
\*
\* A course URL is a sequence of tokens cut where the regular expression of
\* line 62 can cut: "http", "s", "://", "/", "courses", single digits, and
\* tokens without a slash or digit ("h", "x", " ", "ftp", "HTTP").

Digits == {"0", "1", "2", "3", "7"}

\* the tokens that hold a slash: [^/] matches none of their characters
Slashed == {"/", "://"}

UrlTokens == {"http", "s", "://", "/", "courses", "course", "h", "x", " ",
              "ftp", "HTTP"} \cup Digits

DigitVal(tok) ==
    CASE tok = "0" -> 0 [] tok = "1" -> 1 [] tok = "2" -> 2
      [] tok = "3" -> 3 [] tok = "7" -> 7

\* int(ds) of a run of digits ds
RECURSIVE IntOf(_)
IntOf(ds) ==
    IF ds = <<>> THEN 0
    ELSE 10 * IntOf(SubSeq(ds, 1, Len(ds)-1)) + DigitVal(ds[Len(ds)])

\* A greedy repetition from position i of s over the tokens of set: the
\* position of the last token it takes (i-1 when it takes none).
RECURSIVE RunEnd(_, _, _)
RunEnd(s, i, set) ==
    IF i <= Len(s) /\ s[i] \in set THEN RunEnd(s, i+1, set) ELSE i-1

\* s has the tokens lit from position i on
LitAt(s, i, lit) ==
    /\ i + Len(lit) - 1 <= Len(s)
    /\ SubSeq(s, i, i + Len(lit) - 1) = lit

\* Line 62: re.match(r"(https?://[^/]+)/courses/(\d+)", s).  re.match
\* anchors the pattern at the start of s and lets anything follow it.
\* The run [^/]+ ends where the first slash is, and \d+ is followed by
\* nothing, so the greedy choices are the only ones that can match.
ReMatch(s) ==
    LET sep   == IF LitAt(s, 1, <<"http", "s">>) THEN 3 ELSE 2
        hEnd  == RunEnd(s, sep + 1, UrlTokens \ Slashed)
        dEnd  == RunEnd(s, hEnd + 4, Digits)
    IN  IF /\ LitAt(s, 1, <<"http">>)
           /\ LitAt(s, sep, <<"://">>)
           /\ hEnd >= sep + 1
           /\ LitAt(s, hEnd + 1, <<"/", "courses", "/">>)
           /\ dEnd >= hEnd + 4
        THEN [matched |-> TRUE, group1 |-> SubSeq(s, 1, hEnd),
              group2 |-> SubSeq(s, hEnd + 4, dEnd)]
        ELSE [matched |-> FALSE, group1 |-> <<>>, group2 |-> <<>>]

\* Variant: the group returned as it is.
BaseUrlOf_NoSlash(group1) == group1

\* Line 64: the trailing slash is added to the first group.
BaseUrlOf(group1) == group1 \o <<"/">>

\* Lines 62-68: extract_url_parts(course_url).
extract_url_parts(course_url) ==
    LET match == ReMatch(course_url)
    IN  IF match.matched
        THEN [base_url |-> Str(BaseUrlOf(match.group1)),
              course_id |-> Num("int", IntOf(match.group2))]
        ELSE [base_url |-> None, course_id |-> Num("none", 0)]

\* The values of CANVAS_COURSE_URL the model tries: a scheme, a separator,
\* a host, a path, an id and a rest, each right or wrong.
CourseUrls ==
    {a \o b \o c \o d \o e \o f :
        a \in {<<"http">>, <<"http", "s">>, <<"ftp">>, <<"HTTP", "s">>,
               <<" ", "http", "s">>, <<>>},
        b \in {<<"://">>, <<"/">>},
        c \in {<<"h">>, <<"h", "x">>, <<>>},
        d \in {<<"/", "courses", "/">>, <<"/", "course", "/">>,
               <<"/", "x", "/", "courses", "/">>, <<"/", "courses">>},
        e \in {<<"1", "2", "3">>, <<"7">>, <<"0", "0", "7">>, <<"0">>,
               <<"x">>, <<>>},
        f \in {<<>>, <<"/">>, <<"/", "x">>, <<"x">>, <<" ">>}}

InitUrl ==
    /\ args = [api_key |-> None, base_url |-> None,
               course_id |-> Num("none", 0), assignment_id |-> Num("none", 0),
               convert_to |-> None]
    /\ pc = "main"
    /\ assignment_url = None
    /\ response = NoResponse
    /\ submission = NoSubmission
    /\ attachment = NoAttachment
    /\ manifest = <<>>
    /\ csv_opens = 0
    /\ csv_closes = 0
    /\ disk = <<>>
    /\ request = NoRequest
    /\ nlist = 0
    /\ ndown = 0
    /\ clock = 0
    /\ natts = 0
    /\ downloaded = 0
    /\ errors = 0
    /\ cv = NoCall
    /\ url_parts \in [state : {"ready"}, course_url : CourseUrls,
                      base_url : {None}, course_id : {Num("none", 0)}]
    /\ npages = 0
    /\ nnext = 0

\* Line 236: base_url, course_id = extract_url_parts(course_url)
CallExtract ==
    /\ pc = "main"
    /\ url_parts.state = "ready"
    /\ LET r == extract_url_parts(url_parts.course_url)
       IN  url_parts' = [url_parts EXCEPT !.state = "returned",
                                          !.base_url = r.base_url,
                                          !.course_id = r.course_id]
    /\ UNCHANGED <<args, pc, assignment_url, response, submission, attachment,
                   manifest, csv_opens, csv_closes, disk, request, nlist,
                   ndown, clock, natts, downloaded, errors, cv, npages,
                   nnext>>

NextUrl == CallExtract

SpecUrl == InitUrl /\ [][NextUrl]_vars

----------------------------------------------------------------------------
\* The claims.

\* the manifest was opened by this run
Opened == csv_opens > 0

\* the data rows of the manifest (all rows but the header)
DataRows == Len(manifest) - 1

\* C1, as claimed: at any point the number of data rows in the manifest
\* equals the number of attachments downloaded successfully so far.
C1_RowsEqualDownloads == Opened => DataRows = downloaded

\* C1, amended: the number of data rows equals the number of attachments
\* that were downloaded and whose processing did not raise afterwards; an
\* attachment skipped for missing metadata issues no download, and a failed
\* download completes none.
C1_RowsEqualProcessed ==
    Opened => /\ DataRows = downloaded - errors
              /\ errors <= downloaded
              /\ downloaded <= ndown
              /\ ndown <= natts

\* C1, witness: of three attachments one was skipped, one was lost to an
\* exception after its download, and one has its row.
C1_Witness ==
    /\ Opened /\ natts = 3 /\ ndown = 2 /\ downloaded = 2 /\ errors = 1
    /\ DataRows = 1

\* A step that receives Retry-After: n sleeps n and keeps the page state;
\* the listing request after a rate-limited one repeats it.
C2_Step ==
    /\ \A n \in Delays :
        (nlist' = nlist + 1 /\ response'.retry_after = Str(<<ToString(n)>>))
        => /\ clock' = clock + n
           /\ assignment_url' = assignment_url
           /\ pc' = "loop"
    /\ (pc = "loop" /\ Truthy(response.retry_after) /\ nlist' = nlist + 1)
        => /\ request.kind = "list"
           /\ request' = request

\* C2: a listing response with Retry-After: N makes the fetcher sleep N and
\* go round the loop with the page state unchanged, and the listing request
\* that follows is the one that was rate-limited.
C2_RateLimitRetry == [][C2_Step]_vars

\* C2, witness: rate-limited once with Retry-After: 1, then the same
\* request brought the page.
C2_Witness ==
    /\ pc = "page" /\ nlist = 2 /\ clock = 1
    /\ request = ListingRequest(Endpoint(args).s)

\* The entries of a Link header (RFC 8288): link-values separated by
\* commas, each a target in angle brackets and parameters after semicolons.
LinkEntries(h) == IF Truthy(h) THEN Split(h.s, COMMA) ELSE <<>>

EntryIsNext(e) ==
    LET parts == Split(e, SEMI)
    IN  \E i \in 2..Len(parts) : Strip(parts[i], {SP}) = <<RelNext>>

EntryUrl(e) == Strip(Split(e, SEMI)[1], {LT, GT, SP})

HasNextEntry(h) ==
    \E i \in 1..Len(LinkEntries(h)) : EntryIsNext(LinkEntries(h)[i])

NextEntryUrl(h) ==
    LET es == LinkEntries(h)
        k  == CHOOSE i \in 1..Len(es) :
                /\ EntryIsNext(es[i])
                /\ \A j \in 1..(i-1) : ~EntryIsNext(es[j])
    IN  EntryUrl(es[k])

\* The step that ends a page sets the page state to the URL of the first
\* entry with relation "next", and to nothing when there is no such entry.
C3_Step ==
    (pc = "page" /\ pc' = "loop")
    => IF HasNextEntry(response.link)
       THEN assignment_url' = Str(NextEntryUrl(response.link))
       ELSE ~Truthy(assignment_url')

\* C3, as claimed: after a page is processed the loop goes on exactly when
\* the Link header of the page has an entry with relation "next", and then
\* with the URL of that entry.
C3_FollowsNextEntry == [][C3_Step]_vars

\* an argument is missing or malformed
C4_Malformed ==
    \/ args.api_key \in {None, Str(<<>>)}
    \/ args.base_url \in {None, Str(<<>>)}
    \/ Head(args.base_url.s) # "https://"
    \/ args.course_id.t # "int"
    \/ args.assignment_id.t # "int"

\* C4: with an argument missing or malformed the function raises before it
\* issues any HTTP request.
C4_ValidatedBeforeNetwork ==
    C4_Malformed => /\ pc \in {"start", "raised"}
                    /\ nlist = 0 /\ ndown = 0 /\ request = NoRequest

\* C4, witness: everything is given, but the base address is http://, and
\* the function raised.
C4_Witness ==
    /\ pc = "raised"
    /\ args.api_key = Str(<<"k">>)
    /\ args.base_url = Str(<<"http://", "h", "/">>)
    /\ args.course_id = Num("int", 5)
    /\ args.assignment_id = Num("int", 5)

\* A failed listing request breaks out of the loop; after a break the only
\* step is closing the manifest; after that there is none.
C5_Step ==
    /\ (/\ nlist' = nlist + 1
        /\ response'.retry_after = None
        /\ ~response'.ok)
        => pc' = "close" /\ manifest' = manifest
    /\ pc = "close"
        => /\ pc' = "done"
           /\ csv_closes' = csv_closes + 1
           /\ UNCHANGED <<manifest, nlist, ndown, request>>
    /\ pc # "done"

\* C5: a listing request that fails (transport error or bad status, no
\* Retry-After) ends the loop: nothing is retried or requested any more and
\* the manifest is closed with the rows it had.
C5_ListingErrorFatal == [][C5_Step]_vars

\* C5, witness: the second listing request raised after a row was written,
\* and the manifest is closed.
C5_Witness ==
    /\ pc = "done" /\ csv_closes = 1 /\ nlist = 2 /\ DataRows = 1
    /\ response = NoResponse /\ Truthy(assignment_url)

\* A step that issues a download and writes no row goes back to the loops
\* over the page and changes nothing of the pagination.
C6_Step ==
    (pc = "attachment" /\ ndown' = ndown + 1 /\ manifest' = manifest)
    => /\ pc' = "page"
       /\ UNCHANGED <<assignment_url, response, submission, csv_closes,
                      nlist>>

\* C6: an attachment whose download or processing fails (a download request
\* was issued and no row written) leaves the loops where a success leaves
\* them: the run goes on with the next attachment, submission and page.
C6_AttachmentErrorLocal == [][C6_Step]_vars

\* C6, witness: of two attachments one download broke (its partial file is
\* there) and the other has its file and its row.
C6_Witness ==
    /\ natts = 2 /\ ndown = 2 /\ downloaded = 1 /\ DataRows = 1
    /\ \E p \in DOMAIN disk : disk[p] = "partial"
    /\ \E p \in DOMAIN disk : disk[p] = "data"

\* The step for an attachment without filename or URL touches neither the
\* network, the manifest nor the disk.
C7_Step ==
    (/\ pc = "attachment"
     /\ \/ attachment.filename \in {None, Str(<<>>)}
        \/ attachment.url \in {None, Str(<<>>)})
    => /\ UNCHANGED <<request, ndown, manifest, disk, submission>>
       /\ pc' = "page"

\* C7: an attachment without filename or URL issues no request and writes
\* no row, and the loop goes on with its siblings.
C7_MissingMetadataSkipped == [][C7_Step]_vars

\* C7, witness: of two attachments of one page one was skipped and one has
\* its row.
C7_Witness ==
    /\ pc = "page" /\ nlist = 1 /\ natts = 2 /\ ndown = 1 /\ DataRows = 1

\* C8, as claimed: convert_image removes the source only when it succeeds,
\* and when it returns the failure indicator the source file is as it was.
C8_FailureLeavesOriginal ==
    (cv.state = "returned" /\ cv.image_path \in DOMAIN cv.before)
    => /\ cv.image_path \notin DOMAIN disk => Truthy(cv.ret)
       /\ (~cv.raised /\ cv.ret = None)
           => /\ cv.image_path \in DOMAIN disk
              /\ disk[cv.image_path] = cv.before[cv.image_path]

\* C9, as claimed: no two rows of the manifest name the same file, that
\* is, no two downloaded attachments end at the same path.
C9_NoCollision ==
    Opened => \A i, j \in 2..Len(manifest) :
                i # j => manifest[i].renamed_filename
                         # manifest[j].renamed_filename

\* the manifest is open from OpenManifest on and closed at the end only;
\* its first row is the header, and no other row is
C10_State ==
    /\ csv_opens = (IF pc \in {"start", "open", "raised", "convert",
                                "main"}
                    THEN 0 ELSE 1)
    /\ csv_closes = (IF pc = "done" THEN 1 ELSE 0)
    /\ Opened => /\ manifest[1] = Header
                 /\ \A i \in 2..Len(manifest) : manifest[i] # Header

C10_Step ==
    /\ C10_State'
    /\ csv_opens' # csv_opens => manifest' = <<Header>>
    /\ Opened =>
        \/ manifest' = manifest
        \/ /\ pc = "attachment"
           /\ Len(manifest') = Len(manifest) + 1
           /\ SubSeq(manifest', 1, Len(manifest)) = manifest
           /\ manifest'[Len(manifest')].canvas_id = CanvasIdCell(submission)
           /\ manifest'[Len(manifest')].original_filename
              = attachment.filename.s

\* C10: the manifest is opened once, truncated, the header written once and
\* first; each data row is appended when its attachment is processed, so
\* the rows are in the order of the attachments; the file is closed once,
\* when the loop is left, normally or by a break.
C10_ManifestLifecycle == C10_State /\ [][C10_Step]_vars

\* C10, witness: a run over two pages wrote two different rows and closed
\* the file.
C10_Witness ==
    /\ pc = "done" /\ csv_closes = 1 /\ nlist = 2 /\ Len(manifest) = 3
    /\ manifest[2] # manifest[3]

\* C11, as claimed: the page state starts at the submissions endpoint, the
\* listing request to the endpoint carries the query parameters, and a
\* listing request to a page URL taken from a Link header does not.
C11_ParamsFirstOnly ==
    /\ (pc = "loop" /\ nlist = 0) => assignment_url = Endpoint(args)
    /\ request.kind = "list"
        => (request.params <=> request.url = Endpoint(args).s)

\* A step that completes a download with conversion requested, and in
\* which convert_image returns, either is the successful conversion, or
\* leaves the downloaded file as it was
\* written, appends the row under the unconverted derived name and goes on
\* with the loops over the page.
C12_Step ==
    (pc = "attachment" /\ Truthy(args.convert_to)
     /\ downloaded' = downloaded + 1 /\ errors' = errors)
    => LET renamed_filename == RenamedFilename(submission, attachment)
           file_path == Join(renamed_filename)
           written   == WriteFile(disk, file_path, "data")
           ok        == convert_image(written, file_path, args.convert_to.s,
                                      "none")
       IN  \/ /\ disk' = ok.disk
              /\ manifest' = manifest \o
                   <<Row(CanvasIdCell(submission), attachment.filename.s,
                         Basename(ok.ret.s))>>
           \/ /\ file_path \in DOMAIN disk'
              /\ disk'[file_path] = "data"
              /\ manifest' = manifest \o
                   <<Row(CanvasIdCell(submission), attachment.filename.s,
                         renamed_filename)>>
              /\ pc' = "page"
              /\ UNCHANGED <<assignment_url, response, submission,
                             csv_closes, nlist>>

\* C12, as claimed: when conversion is requested and fails for a downloaded
\* attachment, the downloaded file stays on disk as it was, the row of the
\* attachment is written under the unconverted derived name, and the run
\* goes on with the next attachment.
C12_ConversionFailureLocal == [][C12_Step]_vars

\* u is http://host/courses/digits or https://host/courses/digits, from
\* its first token to its last, and its host ends at position i
UrlForm(u, i) ==
    \E k \in {2, 3} :
        /\ k < i /\ i + 4 <= Len(u)
        /\ SubSeq(u, 1, k-1) \in {<<"http">>, <<"http", "s">>}
        /\ u[k] = "://"
        /\ \A m \in (k+1)..i : u[m] \notin Slashed
        /\ SubSeq(u, i+1, i+3) = <<"/", "courses", "/">>
        /\ \A m \in (i+4)..Len(u) : u[m] \in Digits

\* what the claim has returned for such a u: everything up to the host
\* with a slash added, and the number the digits spell
UrlFormResult(u, i) ==
    [base_url |-> Str(SubSeq(u, 1, i) \o <<"/">>),
     course_id |-> Num("int", IntOf(SubSeq(u, i+4, Len(u))))]

Unparseable == [base_url |-> None, course_id |-> Num("none", 0)]

ReturnedParts == [base_url |-> url_parts.base_url,
                  course_id |-> url_parts.course_id]

\* C13, as claimed: extract_url_parts returns (base address with trailing
\* slash, course id as integer) for a string of the form
\* scheme://host/courses/{digits}, and (None, None) for every other string.
C13_WholeStringForm ==
    url_parts.state = "returned"
    => LET u == url_parts.course_url
       IN  IF \E i \in 1..Len(u) : UrlForm(u, i)
           THEN \E i \in 1..Len(u) :
                    UrlForm(u, i) /\ ReturnedParts = UrlFormResult(u, i)
           ELSE ReturnedParts = Unparseable

\* the prefixes of u that have the form
FormPrefixes(u) ==
    {j \in 1..Len(u) : \E i \in 1..j : UrlForm(SubSeq(u, 1, j), i)}

\* C13, amended: extract_url_parts returns (base address with trailing
\* slash, course id as integer) for every string that begins with
\* http(s)://host/courses/{digits}, reading the longest run of digits and
\* ignoring whatever follows it, and (None, None) for every string that
\* does not begin so.
C13_PrefixForm ==
    url_parts.state = "returned"
    => LET u == url_parts.course_url
       IN  IF FormPrefixes(u) # {}
           THEN LET j == CHOOSE j \in FormPrefixes(u) :
                            \A m \in FormPrefixes(u) : m <= j
                    p == SubSeq(u, 1, j)
                IN  \E i \in 1..j :
                        UrlForm(p, i) /\ ReturnedParts = UrlFormResult(p, i)
           ELSE ReturnedParts = Unparseable

\* C13, witness: https://h/courses/123/x was parsed to ("https://h/", 123).
C13_Witness ==
    /\ url_parts.state = "returned"
    /\ url_parts.course_url = <<"http", "s", "://", "h", "/", "courses", "/",
                                "1", "2", "3", "/", "x">>
    /\ url_parts.base_url = Str(<<"http", "s", "://", "h", "/">>)
    /\ url_parts.course_id = Num("int", 123)

\* the loop was left by a break (lines 208-213): a break comes before line
\* 199, so it leaves the page state as line 119 found it
C14_Broke == pc = "close" \/ (pc = "done" /\ Truthy(assignment_url))

\* every listing request so far was answered by a page and no page made
\* lines 139-154 raise: no rate-limit signal, no error
C14_NoSignals == nlist = npages /\ ~C14_Broke

\* C14, as claimed: after three pages with a next URL and a page with
\* none, and no rate-limit signals or errors, the fetcher has terminated
\* with exactly three listing fetches.
C14_ThreeFetches ==
    (C14_NoSignals /\ pc = "done" /\ nnext = 3) => nlist = 3

\* C14, amended: without rate-limit signals and errors the fetcher issues
\* one listing request per page: it goes on after every page in which it
\* found a next URL and terminates after the first page without one, so three
\* pages with a next URL followed by a page with none take exactly four
\* listing fetches.
C14_FourFetches ==
    C14_NoSignals
    => /\ (pc = "loop" /\ nlist > 0)
           => (Truthy(assignment_url) <=> nnext = npages)
       /\ pc \in {"loop", "page", "attachment"} => nnext \in {npages-1, npages}
       /\ pc = "done" => /\ nlist = nnext + 1
                         /\ (nnext = 3 => nlist = 4)

\* C14, witness: three pages with a next URL and one without were fetched
\* with four listing requests, and the fetcher has terminated.
C14_Witness ==
    /\ C14_NoSignals /\ pc = "done" /\ nnext = 3 /\ npages = 4 /\ nlist = 4
    /\ csv_closes = 1

\* C15, as claimed: at the end of a run every data row of the manifest
\* names, in its Renamed Filename column, a file that exists in the output
\* directory.
C15_RowsNameFiles ==
    (Opened /\ pc = "done")
    => \A i \in 2..Len(manifest) :
          Join(manifest[i].renamed_filename) \in DOMAIN disk

\* A step that receives a listing response with a Retry-After header,
\* whatever its status, goes round the loop with the page state as it was:
\* no row, no download, no page counted, no break.
C16_Step ==
    (nlist' = nlist + 1 /\ response'.retry_after # None)
    => /\ pc' = "loop"
       /\ UNCHANGED <<assignment_url, manifest, disk, ndown, natts, npages,
                      submission, attachment, csv_closes>>

\* C16, as claimed: a listing response that carries the rate-limit header
\* is discarded before its status and body are looked at: it adds no rows
\* and no downloads and cannot abort the run, so the page is processed by
\* the first response for its URL that comes without the header.
C16_RateLimitedDiscarded == [][C16_Step]_vars

\* the fetcher is about to issue a listing request the server may still
\* answer with a rate-limit signal
C17_CanBeRateLimited == CanFetch

\* the retry of a rate-limited request: a listing request is issued, the
\* answer carries Retry-After, and the loop is where it was
C17_Retry ==
    /\ FetchRateLimited
    /\ pc' = "loop"
    /\ assignment_url' = assignment_url

\* C17: once the manifest is open, the fetcher leaves the loop and closes
\* the manifest, given that the server sends finitely many rate-limited
\* responses and a finite chain of next links; and the fetcher itself sets
\* no ceiling: however many rate-limited responses it has had, the next
\* request can be rate-limited and retried again.
C17_EventuallyClosed ==
    /\ (Opened ~> (pc = "done" /\ csv_closes = 1))
    /\ [](C17_CanBeRateLimited => ENABLED C17_Retry)

\* C17, witness: the same request was rate-limited three times, then the
\* page came, and the manifest is closed.
C17_Witness ==
    /\ pc = "done" /\ csv_closes = 1
    /\ nlist = 4 /\ npages = 1 /\ ~Truthy(assignment_url)

====
